---- MODULE Spec2Model ----
(***************************************************************************)
(* Model of backend/app/data_processing.py: the feature-derivation,        *)
(* idle-time and speed-outlier pipeline (process_pipeline and the          *)
(* functions it calls), as a state machine over one in-memory DataFrame.   *)
(*                                                                         *)
(* Values.  A pandas missing value (NaN, NaT, None, pd.NA: everything      *)
(* pd.isna accepts) is the empty tuple.  A timestamp is <<t>>, t in        *)
(* seconds.  A float is <<n, d>>: the rational n/d in lowest terms with    *)
(* d > 0, or +inf = <<1, 0>>, or -inf = <<-1, 0>>.  An integer (int64) is  *)
(* <<n>>.  A raw CSV cell that                                             *)
(* does not parse (timestamp text, coordinate text) is a tuple of length   *)
(* two.  A DataFrame is a sequence of rows; the field idx of a row is its  *)
(* pandas index label.                                                     *)
(***************************************************************************)
EXTENDS Integers, Sequences, FiniteSets, TLC

VARIABLES
    csv,            \* the rows of the file pd.read_csv loads
    df,             \* the DataFrame of process_pipeline
    df_clean,       \* df after dropna
    pc,             \* position in process_pipeline
    run,            \* 1: the raw file; 2: the cleaned output fed back in
    pos,            \* number of rows the current iterrows loop has consumed
    idle_times,     \* calculate_idle_time_sec: the list being built
    last_dropoff,   \* calculate_idle_time_sec: vendor -> last dropoff seen
    max_speed,      \* detect_speed_outliers: the threshold argument
    nodes,          \* LinkedList: the Node objects allocated, in allocation order
    head,           \* LinkedList.head (0 is None)
    tail,           \* LinkedList.tail (0 is None)
    out_list,       \* outliers.to_list()
    first_clean     \* df_clean of run 1, kept to compare run 2 against

vars == <<csv, df, df_clean, pc, run, pos, idle_times, last_dropoff,
          max_speed, nodes, head, tail, out_list, first_clean>>

----------------------------------------------------------------------------
(* Bounds of the model. *)

MaxRows == 3

----------------------------------------------------------------------------
(* Missing values, floats. *)

NA == <<>>

IsNA(x) == x = NA

Abs(n) == IF n < 0 THEN -n ELSE n

RECURSIVE GCD(_, _)
GCD(a, b) == IF b = 0 THEN a ELSE GCD(b, a % b)

\* The float n/d (d # 0), in lowest terms with a positive denominator.
Rat(n, d) ==
    LET s == IF d < 0 THEN -1 ELSE 1
        g == GCD(Abs(n), Abs(d))
    IN  <<(s * n) \div g, (s * d) \div g>>

F(n) == <<n, 1>>

PosInf == <<1, 0>>
NegInf == <<-1, 0>>

IsInf(x) == x = PosInf \/ x = NegInf

\* IEEE comparisons: false whenever an operand is NaN.
FGt(a, b) ==
    /\ ~IsNA(a)
    /\ ~IsNA(b)
    /\ IF IsInf(a) \/ IsInf(b)
       THEN a # b /\ (a = PosInf \/ b = NegInf)
       ELSE a[1] * b[2] > b[1] * a[2]

FGe(a, b) == ~IsNA(a) /\ ~IsNA(b) /\ (a = b \/ FGt(a, b))

\* IEEE division as numpy performs it on a float column: x/0 is an
\* infinity, 0/0 and inf/inf are NaN, nothing raises.
FDiv(a, b) ==
    IF IsNA(a) \/ IsNA(b) THEN NA
    ELSE IF IsInf(a) /\ IsInf(b) THEN NA
    ELSE IF IsInf(a) THEN (IF b[1] < 0 THEN <<-a[1], 0>> ELSE a)
    ELSE IF IsInf(b) THEN F(0)
    ELSE IF b[1] = 0 THEN (IF a[1] = 0 THEN NA
                           ELSE IF a[1] > 0 THEN PosInf ELSE NegInf)
    ELSE Rat(a[1] * b[2], a[2] * b[1])

----------------------------------------------------------------------------
(* Program constants. *)

SPEED_OUTLIER_THRESHOLD == 120

----------------------------------------------------------------------------
(* Cleaning. *)

\* pd.to_datetime(..., errors="coerce", utc=True): a cell that parses is
\* its instant, any other cell (empty, malformed) is NaT.
clean_datetime(cell) == IF Len(cell) = 1 THEN cell ELSE NA

\* Series.fillna(v) on a float column: v as a float where the cell is NaN.
fillna(x, v) == IF IsNA(x) THEN F(v) ELSE x

\* Series.astype(int): an integer stays, a finite float is truncated
\* towards zero.
astype_int(x) ==
    IF Len(x) = 1 THEN x
    ELSE IF x[1] >= 0 THEN <<x[1] \div x[2]>>
    ELSE <<-((-x[1]) \div x[2])>>

\* Series.clip(lower=l) on an integer column.
clip_lower(x, l) == IF x[1] < l THEN <<l>> ELSE x

\* Mutant of clean_passenger_count: the lower bound of the clip is 0.
clean_passenger_count_clip0(cell) == clip_lower(astype_int(fillna(cell, 1)), 0)

\* clean_passenger_count_series, one cell (lines 36-39)
clean_passenger_count(cell) == clip_lower(astype_int(fillna(cell, 1)), 1)

----------------------------------------------------------------------------
(* Feature derivation, one row at a time (the pandas column operations    *)
(* are elementwise).                                                       *)

\* (a - b).total_seconds() on two timestamps: NaN when either is NaT.
total_seconds_between(a, b) ==
    IF IsNA(a) \/ IsNA(b) THEN NA ELSE F(a[1] - b[1])

\* Series.where(cond): the value where cond holds, NaN elsewhere.
where(x, cond) == IF cond THEN x ELSE NA

\* Mutant of calculate_trip_duration_secs: a negative duration becomes 0.
calculate_trip_duration_secs_clamped(row) ==
    LET duration_sec == total_seconds_between(row.dropoff_datetime, row.pickup_datetime)
    IN  IF IsNA(duration_sec) \/ FGe(duration_sec, F(0)) THEN duration_sec ELSE F(0)

calculate_trip_duration_secs(row) ==
    LET duration_sec == total_seconds_between(row.dropoff_datetime, row.pickup_datetime)
    IN  where(duration_sec, FGe(duration_sec, F(0)))

\* services.utils.calculate_trip_distance restricted to points of one
\* meridian, a latitude being given as its arc length in km from the
\* equator: the haversine distance R*c is then |lat1 - lat2|.  A NaN
\* coordinate makes every intermediate NaN; a malformed one makes
\* radians() raise.
Malformed(coord) == Len(coord) = 2

calculate_trip_distance(lat1, lat2) ==
    IF IsNA(lat1) \/ IsNA(lat2) THEN NA ELSE F(Abs(lat2[1] - lat1[1]))

\* dist(row): the try/except around calculate_trip_distance.
calculate_trip_distance_km(row) ==
    IF Malformed(row.pickup_latitude) \/ Malformed(row.dropoff_latitude)
    THEN NA
    ELSE calculate_trip_distance(row.pickup_latitude, row.dropoff_latitude)

\* Mutant of derive_trip_speed_kmh: the quotient is returned unmasked.
derive_trip_speed_kmh_unmasked(row) ==
    FDiv(row.trip_distance_km, FDiv(row.trip_duration_sec, F(3600)))

derive_trip_speed_kmh(row) ==
    LET speed == FDiv(row.trip_distance_km, FDiv(row.trip_duration_sec, F(3600)))
    IN  where(speed, FGt(row.trip_duration_sec, F(0)))

\* Series.clip(upper=u): NaN stays NaN.
clip_upper(x, u) == IF FGt(x, u) THEN u ELSE x

\* Mutant of derive_trip_efficiency: the ratio is not capped.
derive_trip_efficiency_uncapped(row, maxspeed) ==
    FDiv(row.trip_speed_kmh, F(maxspeed))

derive_trip_efficiency(row, maxspeed) ==
    LET efficiency == FDiv(row.trip_speed_kmh, F(maxspeed))
    IN  clip_upper(efficiency, F(1))

\* Series.replace([inf, -inf], pd.NA)
replace_inf(x) == IF IsInf(x) THEN NA ELSE x

\* Mutant of derive_fare_per_km: only +inf is replaced.
derive_fare_per_km_posinf(row) ==
    LET fare_per_km == FDiv(row.fare_amount, row.trip_distance_km)
    IN  IF fare_per_km = PosInf THEN NA ELSE fare_per_km

derive_fare_per_km(row) ==
    LET fare_per_km == FDiv(row.fare_amount, row.trip_distance_km)
    IN  replace_inf(fare_per_km)

----------------------------------------------------------------------------
(* Rows. *)

\* A row of the CSV file: the raw columns, and the derived columns (NA in
\* a file that does not have them yet).  The passenger count is 1 unless
\* WithPassengers sets it.
CsvRow(v, pu, do, plat, dlat, fare) ==
    [vendor_id |-> v, pickup_datetime |-> pu, dropoff_datetime |-> do,
     passenger_count |-> <<1>>,
     pickup_latitude |-> plat, dropoff_latitude |-> dlat, fare_amount |-> fare,
     trip_duration_sec |-> NA, trip_distance_km |-> NA, trip_speed_kmh |-> NA,
     trip_efficiency |-> NA, fare_per_km |-> NA, idle_time_sec |-> NA]

WithPassengers(r, cell) == [r EXCEPT !.passenger_count = cell]

\* pd.read_csv: row number k of the file (from 0) gets index label k.
WithIdx(r, i) ==
    [vendor_id |-> r.vendor_id, pickup_datetime |-> r.pickup_datetime,
     dropoff_datetime |-> r.dropoff_datetime,
     passenger_count |-> r.passenger_count,
     pickup_latitude |-> r.pickup_latitude, dropoff_latitude |-> r.dropoff_latitude,
     fare_amount |-> r.fare_amount,
     trip_duration_sec |-> r.trip_duration_sec, trip_distance_km |-> r.trip_distance_km,
     trip_speed_kmh |-> r.trip_speed_kmh, trip_efficiency |-> r.trip_efficiency,
     fare_per_km |-> r.fare_per_km, idle_time_sec |-> r.idle_time_sec,
     idx |-> i]

\* DataFrame.to_csv(index=False): the columns without the index.
WithoutIdx(r) ==
    [vendor_id |-> r.vendor_id, pickup_datetime |-> r.pickup_datetime,
     dropoff_datetime |-> r.dropoff_datetime,
     passenger_count |-> r.passenger_count,
     pickup_latitude |-> r.pickup_latitude, dropoff_latitude |-> r.dropoff_latitude,
     fare_amount |-> r.fare_amount,
     trip_duration_sec |-> r.trip_duration_sec, trip_distance_km |-> r.trip_distance_km,
     trip_speed_kmh |-> r.trip_speed_kmh, trip_efficiency |-> r.trip_efficiency,
     fare_per_km |-> r.fare_per_km, idle_time_sec |-> r.idle_time_sec]

read_csv(file) == [k \in 1..Len(file) |-> WithIdx(file[k], k - 1)]

to_csv(frame) == [k \in 1..Len(frame) |-> WithoutIdx(frame[k])]

\* Input files.  A file of one row draws the row from RichRows (every
\* field varies); a longer file draws its rows from CoreRows (vendor and
\* the two timestamps vary; the trips of vendor 1 are 25 km long, those of
\* vendor 2 are 10 km long).
Garbage == <<0, 0>>

\* Cells of the passenger_count column: empty, integers, and floats (the
\* column is a float column when it has an empty cell).
PassengerCells == {NA, <<-3>>, <<0>>, <<4>>, F(4), <<1, 2>>, <<5, 2>>}

RichRows ==
    { WithPassengers(CsvRow(1, pu, do, plat, dlat, fare), pax) :
        pax \in PassengerCells,
        pu \in {NA, Garbage, <<0>>, <<300>>, <<600>>},
        do \in {NA, Garbage, <<0>>, <<300>>, <<600>>},
        plat \in {NA, <<0>>},
        dlat \in {NA, Garbage, <<0>>, <<10>>, <<25>>},
        fare \in {NA, F(-15), F(0), F(15)} }

CoreRows ==
    { CsvRow(v, pu, do, <<0>>, IF v = 1 THEN <<25>> ELSE <<10>>, F(15)) :
        v \in {1, 2},
        pu \in {NA, <<0>>, <<300>>},
        do \in {NA, <<0>>, <<300>>} }

Files ==
    { <<r>> : r \in RichRows }
        \cup UNION { [1..n -> CoreRows] : n \in 2..MaxRows }

\* The thresholds detect_speed_outliers is called with: the default (the
\* speed of a 10 km trip of 300 s), and half of it.
Thresholds == {SPEED_OUTLIER_THRESHOLD, SPEED_OUTLIER_THRESHOLD \div 2}

----------------------------------------------------------------------------
(* Sorting: df.sort_values(['vendor_id', 'pickup_datetime']).  The sort    *)
(* on several keys is stable and puts NaT after every timestamp of the     *)
(* same vendor; the rows keep their index labels.                          *)

TsLess(x, y) == ~IsNA(x) /\ (IsNA(y) \/ x[1] < y[1])

RowLess(a, b) ==
    \/ a.vendor_id < b.vendor_id
    \/ a.vendor_id = b.vendor_id /\ TsLess(a.pickup_datetime, b.pickup_datetime)

\* r put into the sorted sequence s, after every row that is not greater.
Insert(s, r) ==
    LET before == { k \in 1..Len(s) : ~RowLess(r, s[k]) }
        n == Cardinality(before)
    IN  SubSeq(s, 1, n) \o <<r>> \o SubSeq(s, n + 1, Len(s))

RECURSIVE SortPrefix(_, _)
SortPrefix(s, n) == IF n = 0 THEN <<>> ELSE Insert(SortPrefix(s, n - 1), s[n])

sort_values(frame) == SortPrefix(frame, Len(frame))

----------------------------------------------------------------------------
(* The state machine of process_pipeline. *)

Init ==
    /\ csv \in Files
    /\ df = <<>>
    /\ df_clean = <<>>
    /\ pc = "load"
    /\ run = 1
    /\ pos = 0
    /\ idle_times = <<>>
    /\ last_dropoff = <<>>
    /\ max_speed = SPEED_OUTLIER_THRESHOLD
    /\ nodes = <<>>
    /\ head = 0
    /\ tail = 0
    /\ out_list = <<>>
    /\ first_clean = <<>>

\* line 210
Load ==
    /\ pc = "load"
    /\ df' = read_csv(csv)
    /\ pc' = "clean"
    /\ UNCHANGED <<csv, df_clean, run, pos, idle_times, last_dropoff,
                   max_speed, nodes, head, tail, out_list, first_clean>>

\* lines 213-215
CleanDatetimes ==
    /\ pc = "clean"
    /\ df' = [k \in 1..Len(df) |->
                [df[k] EXCEPT !.pickup_datetime = clean_datetime(@),
                              !.dropoff_datetime = clean_datetime(@),
                              !.passenger_count = clean_passenger_count(@)]]
    /\ pc' = "duration"
    /\ UNCHANGED <<csv, df_clean, run, pos, idle_times, last_dropoff,
                   max_speed, nodes, head, tail, out_list, first_clean>>

\* lines 218-219
DeriveDurationDistance ==
    /\ pc = "duration"
    /\ df' = [k \in 1..Len(df) |->
                [df[k] EXCEPT !.trip_duration_sec = calculate_trip_duration_secs(df[k]),
                              !.trip_distance_km = calculate_trip_distance_km(df[k])]]
    /\ pc' = "speed"
    /\ UNCHANGED <<csv, df_clean, run, pos, idle_times, last_dropoff,
                   max_speed, nodes, head, tail, out_list, first_clean>>

\* One row through lines 222-224: the efficiency reads the speed just stored.
WithSpeedEfficiencyFare(row) ==
    LET r1 == [row EXCEPT !.trip_speed_kmh = derive_trip_speed_kmh(row)]
        r2 == [r1 EXCEPT !.trip_efficiency = derive_trip_efficiency(r1, SPEED_OUTLIER_THRESHOLD)]
    IN  [r2 EXCEPT !.fare_per_km = derive_fare_per_km(r2)]

\* lines 222-224
DeriveSpeedEfficiencyFare ==
    /\ pc = "speed"
    /\ df' = [k \in 1..Len(df) |-> WithSpeedEfficiencyFare(df[k])]
    /\ pc' = "sort"
    /\ UNCHANGED <<csv, df_clean, run, pos, idle_times, last_dropoff,
                   max_speed, nodes, head, tail, out_list, first_clean>>

\* line 226
Sort ==
    /\ pc = "sort"
    /\ df' = sort_values(df)
    /\ pc' = "idle_call"
    /\ UNCHANGED <<csv, df_clean, run, pos, idle_times, last_dropoff,
                   max_speed, nodes, head, tail, out_list, first_clean>>

----------------------------------------------------------------------------
(* calculate_idle_time_sec (lines 89-108). *)

\* lines 100-103: the idle time of a row, given the tracker.
idle_of(row, tracker) ==
    IF row.vendor_id \in DOMAIN tracker
    THEN LET diff == total_seconds_between(row.pickup_datetime, tracker[row.vendor_id])
         IN  IF FGe(diff, F(0)) THEN diff ELSE NA
    ELSE NA

\* Mutant of tracker_update: a missing dropoff leaves the entry as it was.
tracker_update_keep(tracker, row) ==
    IF IsNA(row.dropoff_datetime) /\ row.vendor_id \in DOMAIN tracker
    THEN tracker
    ELSE [v \in DOMAIN tracker \cup {row.vendor_id} |->
            IF v = row.vendor_id THEN row.dropoff_datetime ELSE tracker[v]]

\* line 106: last_dropoff[vendor] = row['dropoff_datetime']
tracker_update(tracker, row) ==
    [v \in DOMAIN tracker \cup {row.vendor_id} |->
        IF v = row.vendor_id THEN row.dropoff_datetime ELSE tracker[v]]

\* lines 94-95: the call starts with an empty list and an empty dict.
IdleCall ==
    /\ pc = "idle_call"
    /\ idle_times' = <<>>
    /\ last_dropoff' = <<>>
    /\ pos' = 0
    /\ pc' = "idle_loop"
    /\ UNCHANGED <<csv, df, df_clean, run, max_speed, nodes, head, tail,
                   out_list, first_clean>>

\* lines 96-106: one iteration of the loop over df.iterrows().
IdleStep ==
    /\ pc = "idle_loop"
    /\ pos < Len(df)
    /\ LET row == df[pos + 1]
       IN  /\ idle_times' = Append(idle_times, idle_of(row, last_dropoff))
           /\ last_dropoff' = tracker_update(last_dropoff, row)
    /\ pos' = pos + 1
    /\ UNCHANGED <<csv, df, df_clean, pc, run, max_speed, nodes, head, tail,
                   out_list, first_clean>>

\* pd.Series(idle_times) has the index 0..n-1; assigning it to a column
\* aligns it on the index labels of df: the row labelled i gets element
\* i of the list, a label outside 0..n-1 gets NaN.
aligned(series, label) ==
    IF label + 1 \in 1..Len(series) THEN series[label + 1] ELSE NA

\* lines 108 and 227: df['idle_time_sec'] = pd.Series(idle_times)
IdleAssign ==
    /\ pc = "idle_loop"
    /\ pos = Len(df)
    /\ df' = [k \in 1..Len(df) |->
                [df[k] EXCEPT !.idle_time_sec = aligned(idle_times, df[k].idx)]]
    /\ pc' = "dropna"
    /\ UNCHANGED <<csv, df_clean, run, pos, idle_times, last_dropoff,
                   max_speed, nodes, head, tail, out_list, first_clean>>

----------------------------------------------------------------------------
(* dropna (line 230). *)

\* Mutant of critical_present: dropna without its subset argument.
critical_present_every_column(row) ==
    /\ ~IsNA(row.pickup_datetime)
    /\ ~IsNA(row.dropoff_datetime)
    /\ ~IsNA(row.trip_duration_sec)
    /\ ~IsNA(row.trip_distance_km)
    /\ ~IsNA(row.fare_amount)
    /\ ~IsNA(row.trip_speed_kmh)
    /\ ~IsNA(row.trip_efficiency)
    /\ ~IsNA(row.fare_per_km)
    /\ ~IsNA(row.idle_time_sec)

critical_present(row) ==
    /\ ~IsNA(row.pickup_datetime)
    /\ ~IsNA(row.dropoff_datetime)
    /\ ~IsNA(row.trip_duration_sec)
    /\ ~IsNA(row.trip_distance_km)

dropna(frame) == SelectSeq(frame, critical_present)

DropNa ==
    /\ pc = "dropna"
    /\ df_clean' = dropna(df)
    /\ pc' = "detect_call"
    /\ UNCHANGED <<csv, df, run, pos, idle_times, last_dropoff,
                   max_speed, nodes, head, tail, out_list, first_clean>>

----------------------------------------------------------------------------
(* LinkedList and detect_speed_outliers (lines 111-152). *)

\* A LinkedList is [nodes, head, tail]: the Node objects allocated, in
\* allocation order, and two references (an index into nodes, 0 for None).
\* A Node is [trip, next].
EmptyList == [nodes |-> <<>>, head |-> 0, tail |-> 0]

\* Mutant of add: the new node is linked in front of the head.
add_prepend(list, trip) ==
    LET ref == Len(list.nodes) + 1
    IN  [nodes |-> Append(list.nodes, [trip |-> trip, next |-> list.head]),
         head |-> ref,
         tail |-> IF list.tail = 0 THEN ref ELSE list.tail]

\* LinkedList.add (lines 123-130)
add(list, trip) ==
    LET new_node == [trip |-> trip, next |-> 0]
        ref == Len(list.nodes) + 1
    IN  IF list.head = 0
        THEN [nodes |-> Append(list.nodes, new_node), head |-> ref, tail |-> ref]
        ELSE [nodes |-> Append([list.nodes EXCEPT ![list.tail].next = ref], new_node),
              head |-> list.head,
              tail |-> ref]

\* LinkedList.to_list: the trips from `current` on, following next.
RECURSIVE walk(_, _)
walk(ns, current) ==
    IF current = 0 THEN <<>> ELSE <<ns[current].trip>> \o walk(ns, ns[current].next)

to_list(ns, hd) == walk(ns, hd)

\* trip.to_dict() (line 151): the columns of the row; the index label is
\* the name of the row Series, not one of its entries.
to_dict(row) == WithoutIdx(row)

\* lines 147-150: does the scan collect this row?
SpeedOrZero(row) == IF IsNA(row.trip_speed_kmh) THEN F(0) ELSE row.trip_speed_kmh

\* Mutant of is_outlier: >= in place of >.
is_outlier_ge(row, threshold) == FGe(SpeedOrZero(row), F(threshold))

is_outlier(row, threshold) == FGt(SpeedOrZero(row), F(threshold))

\* line 233 and line 145: the call, with its threshold and an empty list.
DetectCall ==
    /\ pc = "detect_call"
    /\ \E th \in Thresholds : max_speed' = th
    /\ nodes' = EmptyList.nodes
    /\ head' = EmptyList.head
    /\ tail' = EmptyList.tail
    /\ pos' = 0
    /\ pc' = "detect_loop"
    /\ UNCHANGED <<csv, df, df_clean, run, idle_times, last_dropoff,
                   out_list, first_clean>>

\* lines 146-151: one iteration of the loop over df_clean.iterrows().
DetectStep ==
    /\ pc = "detect_loop"
    /\ pos < Len(df_clean)
    /\ LET trip == df_clean[pos + 1]
       IN  IF is_outlier(trip, max_speed)
           THEN LET list == add([nodes |-> nodes, head |-> head, tail |-> tail],
                                to_dict(trip))
                IN  /\ nodes' = list.nodes
                    /\ head' = list.head
                    /\ tail' = list.tail
           ELSE UNCHANGED <<nodes, head, tail>>
    /\ pos' = pos + 1
    /\ UNCHANGED <<csv, df, df_clean, pc, run, idle_times, last_dropoff,
                   max_speed, out_list, first_clean>>

\* lines 152 and 235-240: the list is returned, walked and reported, and
\* the cleaned rows are written out.
Report ==
    /\ pc = "detect_loop"
    /\ pos = Len(df_clean)
    /\ out_list' = to_list(nodes, head)
    /\ pc' = "done"
    /\ UNCHANGED <<csv, df, df_clean, run, pos, idle_times, last_dropoff,
                   max_speed, nodes, head, tail, first_clean>>

\* The cleaned output of run 1 (line 240) becomes the input of a second
\* run of process_pipeline.
Rerun ==
    /\ pc = "done"
    /\ run = 1
    /\ Len(df_clean) > 0
    /\ csv' = to_csv(df_clean)
    /\ first_clean' = df_clean
    /\ run' = 2
    /\ pc' = "load"
    /\ df' = <<>>
    /\ df_clean' = <<>>
    /\ out_list' = <<>>
    /\ nodes' = <<>>
    /\ head' = 0
    /\ tail' = 0
    /\ max_speed' = SPEED_OUTLIER_THRESHOLD
    /\ UNCHANGED <<pos, idle_times, last_dropoff>>

Next ==
    \/ Load
    \/ CleanDatetimes
    \/ DeriveDurationDistance
    \/ DeriveSpeedEfficiencyFare
    \/ Sort
    \/ IdleCall
    \/ IdleStep
    \/ IdleAssign
    \/ DropNa
    \/ DetectCall
    \/ DetectStep
    \/ Report
    \/ Rerun

Spec == Init /\ [][Next]_vars

----------------------------------------------------------------------------
(* Properties. *)

RECURSIVE IsSubsequence(_, _)
\* l can be obtained from s by deleting elements (the order is kept).
IsSubsequence(l, s) ==
    IF l = <<>> THEN TRUE
    ELSE IF s = <<>> THEN FALSE
    ELSE IF Head(l) = Head(s) THEN IsSubsequence(Tail(l), Tail(s))
    ELSE IsSubsequence(l, Tail(s))

\* The rows of a frame as the dicts the scan stores.
Dicts(frame) == [k \in 1..Len(frame) |-> to_dict(frame[k])]

\* C1: at every moment of the scan, and in the returned list, the outliers
\* are in the order in which the scan met them: walking the linked list
\* from its head gives what is left of the scanned rows, in their order,
\* when the other rows are deleted.
C1_OutlierOrder ==
    /\ pc = "detect_loop" =>
          IsSubsequence(to_list(nodes, head), SubSeq(Dicts(df_clean), 1, pos))
    /\ pc = "done" => IsSubsequence(out_list, Dicts(df_clean))

\* Two different outliers with a row that is no outlier between them.
C1_Witness ==
    /\ pc = "done"
    /\ Len(out_list) = 2
    /\ Len(df_clean) = 3
    /\ out_list[1] # out_list[2]
    /\ out_list[1] = to_dict(df_clean[1])
    /\ out_list[2] = to_dict(df_clean[3])

\* The claim's own words: speed present and strictly greater.
Qualifies(row, threshold) ==
    /\ ~IsNA(row.trip_speed_kmh)
    /\ row.trip_speed_kmh[1] > threshold * row.trip_speed_kmh[2]

\* C2: the returned list holds a row if and only if its speed is present
\* and strictly greater than the threshold, and holds as many entries as
\* there are such rows (one per occurrence, no deduplication, no cap).
C2_OutlierMembership ==
    pc = "done" =>
        /\ \A k \in 1..Len(df_clean) :
              (\E j \in 1..Len(out_list) : out_list[j] = to_dict(df_clean[k]))
                  <=> Qualifies(df_clean[k], max_speed)
        /\ Len(out_list)
              = Cardinality({k \in 1..Len(df_clean) : Qualifies(df_clean[k], max_speed)})

\* A row at exactly the default threshold and a row without speed are
\* left out, a faster row is collected.
C2_Witness ==
    /\ pc = "done"
    /\ max_speed = SPEED_OUTLIER_THRESHOLD
    /\ Len(out_list) = 1
    /\ \E k \in 1..Len(df_clean) : df_clean[k].trip_speed_kmh = F(SPEED_OUTLIER_THRESHOLD)
    /\ \E k \in 1..Len(df_clean) : IsNA(df_clean[k].trip_speed_kmh)

\* The gap between a pickup and an earlier dropoff, as the data model
\* defines idle_seconds: missing when either instant is missing or the gap
\* is negative.
Gap(pickup, dropoff) ==
    IF IsNA(pickup) \/ IsNA(dropoff) THEN NA
    ELSE IF pickup[1] - dropoff[1] >= 0 THEN F(pickup[1] - dropoff[1])
    ELSE NA

\* The idle time the sorted frame defines for its row k: the gap to the
\* row just before it, when that row is of the same vendor.
ExpectedIdle(frame, k) ==
    IF k > 1 /\ frame[k - 1].vendor_id = frame[k].vendor_id
    THEN Gap(frame[k].pickup_datetime, frame[k - 1].dropoff_datetime)
    ELSE NA

\* C3: after the sort and the idle-time pass, every row carries the idle
\* time of its own position in (vendor_id, pickup_datetime) order.
C3_IdleOnOwnRow ==
    pc = "dropna" =>
        \A k \in 1..Len(df) : df[k].idle_time_sec = ExpectedIdle(df, k)

\* C4 as claimed: in the idle-time pass a row without pickup or without
\* dropoff gets no idle time.
C4_MissingTimestampNoIdle ==
    pc = "idle_loop" =>
        \A k \in 1..pos :
            (IsNA(df[k].pickup_datetime) \/ IsNA(df[k].dropoff_datetime))
                => IsNA(idle_times[k])

\* The rows of the same vendor the pass met before row k.
Earlier(frame, k) == { j \in 1..(k - 1) : frame[j].vendor_id = frame[k].vendor_id }

Latest(S) == CHOOSE j \in S : \A i \in S : i <= j

\* C4 as amended: in the idle-time pass a row gets no idle time when its
\* pickup is missing, when no row of its vendor came before it, or when
\* the dropoff of the latest such row is missing; its own dropoff plays no
\* part: with a pickup and a stored dropoff not after it, the row gets
\* their difference.
C4_IdleMissingness ==
    pc = "idle_loop" =>
        \A k \in 1..pos :
            IF Earlier(df, k) = {}
            THEN IsNA(idle_times[k])
            ELSE LET before == df[Latest(Earlier(df, k))].dropoff_datetime
                 IN  /\ (IsNA(df[k].pickup_datetime) \/ IsNA(before))
                            => IsNA(idle_times[k])
                     /\ (~IsNA(df[k].pickup_datetime) /\ ~IsNA(before)
                            /\ df[k].pickup_datetime[1] >= before[1])
                            => idle_times[k] = F(df[k].pickup_datetime[1] - before[1])

\* A row with a pickup and no dropoff that got an idle time.
C4_Witness ==
    /\ pc = "idle_loop"
    /\ \E k \in 1..pos :
          /\ ~IsNA(df[k].pickup_datetime)
          /\ IsNA(df[k].dropoff_datetime)
          /\ ~IsNA(idle_times[k])

\* C5: the cleaned frame holds exactly the rows whose four critical
\* fields are present, in the order the sorted frame has them (which is
\* the (vendor_id, pickup_datetime) order), and every outlier reported is
\* one of its rows.
C5_CleanedIffCritical ==
    pc \in {"detect_call", "detect_loop", "done"} =>
        /\ \A k \in 1..Len(df) :
              (\E j \in 1..Len(df_clean) : df_clean[j] = df[k])
                  <=> (/\ df[k].pickup_datetime # NA
                       /\ df[k].dropoff_datetime # NA
                       /\ df[k].trip_duration_sec # NA
                       /\ df[k].trip_distance_km # NA)
        /\ IsSubsequence(df_clean, df)
        /\ \A j \in 1..(Len(df_clean) - 1) : ~RowLess(df_clean[j + 1], df_clean[j])
        /\ \A n \in 1..Len(nodes) :
              \E j \in 1..Len(df_clean) : nodes[n].trip = to_dict(df_clean[j])
        /\ pc = "done" =>
              \A n \in 1..Len(out_list) :
                  \E j \in 1..Len(df_clean) : out_list[n] = to_dict(df_clean[j])

\* A row was dropped, a row without speed and without idle time was kept,
\* and an outlier was reported.
C5_Witness ==
    /\ pc = "done"
    /\ Len(df_clean) < Len(df)
    /\ Len(out_list) >= 1
    /\ \E j \in 1..Len(df_clean) :
          IsNA(df_clean[j].trip_speed_kmh) /\ IsNA(df_clean[j].idle_time_sec)

Derived(row) ==
    <<row.trip_duration_sec, row.trip_distance_km, row.trip_speed_kmh,
      row.trip_efficiency, row.fare_per_km, row.idle_time_sec>>

\* C6: the pipeline run on its own cleaned output gives every row the
\* derived values the first run gave it (row number i of the second input
\* is row number i of the first output).
C6_Idempotent ==
    (run = 2 /\ pc = "done") =>
        /\ Len(df_clean) = Len(first_clean)
        /\ \A k \in 1..Len(df_clean) :
              Derived(df_clean[k]) = Derived(first_clean[df_clean[k].idx + 1])

\* The stages of process_pipeline at which the named column is in place.
AfterDuration == pc \notin {"load", "clean", "duration"}
AfterFeatures == pc \notin {"load", "clean", "duration", "speed"}

\* C7: duration is present exactly when both timestamps are present and
\* the dropoff is not before the pickup, and is then their difference
\* (zero included); it is missing otherwise, never 0 in place of a
\* negative difference.
C7_Duration ==
    AfterDuration =>
        \A k \in 1..Len(df) :
            LET pu == df[k].pickup_datetime
                do == df[k].dropoff_datetime
                d == df[k].trip_duration_sec
            IN  IF pu # NA /\ do # NA /\ do[1] >= pu[1]
                THEN d = <<do[1] - pu[1], 1>> /\ d[1] >= 0
                ELSE d = NA

\* A zero duration kept as 0 and a negative difference left missing.
C7_Witness ==
    /\ pc = "speed"
    /\ \E k \in 1..Len(df) : df[k].trip_duration_sec = F(0)
    /\ \E k \in 1..Len(df) :
          /\ df[k].pickup_datetime # NA
          /\ df[k].dropoff_datetime # NA
          /\ df[k].dropoff_datetime[1] < df[k].pickup_datetime[1]
          /\ df[k].trip_duration_sec = NA

\* C8: speed is present only with a duration that is present and
\* positive, and is never an infinity; efficiency is present only with
\* speed; a row whose dropoff is before its pickup has none of the three.
C8_MissingnessPropagates ==
    AfterFeatures =>
        \A k \in 1..Len(df) :
            LET r == df[k]
            IN  /\ r.trip_speed_kmh # NA =>
                      /\ r.trip_duration_sec # NA
                      /\ r.trip_duration_sec[1] > 0
                      /\ r.trip_speed_kmh[2] # 0
                /\ r.trip_efficiency # NA => r.trip_speed_kmh # NA
                /\ (/\ r.pickup_datetime # NA
                    /\ r.dropoff_datetime # NA
                    /\ r.dropoff_datetime[1] < r.pickup_datetime[1])
                      => /\ r.trip_duration_sec = NA
                         /\ r.trip_speed_kmh = NA
                         /\ r.trip_efficiency = NA

\* A trip of zero duration over a positive distance: no speed, no
\* efficiency.
C8_Witness ==
    /\ pc = "sort"
    /\ \E k \in 1..Len(df) :
          /\ df[k].trip_duration_sec = F(0)
          /\ df[k].trip_distance_km # NA
          /\ df[k].trip_distance_km[1] > 0
          /\ df[k].trip_speed_kmh = NA
          /\ df[k].trip_efficiency = NA

\* C9: efficiency, when present, is min(speed / 120, 1): it is the ratio
\* for a speed up to 120, exactly 1 above, and lies in [0, 1]; 600 s over
\* 10 km give speed 60 and efficiency 1/2.
C9_Efficiency ==
    AfterFeatures =>
        \A k \in 1..Len(df) :
            LET r == df[k]
                e == r.trip_efficiency
                v == r.trip_speed_kmh
            IN  /\ e # NA =>
                      /\ v # NA
                      /\ e[2] > 0
                      /\ 0 <= e[1]
                      /\ e[1] <= e[2]
                      /\ IF v[1] > SPEED_OUTLIER_THRESHOLD * v[2]
                         THEN e = <<1, 1>>
                         ELSE e[1] * v[2] * SPEED_OUTLIER_THRESHOLD = v[1] * e[2]
                /\ (r.trip_duration_sec = <<600, 1>> /\ r.trip_distance_km = <<10, 1>>)
                      => (v = <<60, 1>> /\ e = <<1, 2>>)

\* A row faster than 120 km/h whose efficiency is exactly 1.
C9_Witness ==
    /\ pc = "sort"
    /\ \E k \in 1..Len(df) :
          /\ df[k].trip_speed_kmh # NA
          /\ df[k].trip_speed_kmh[1] > SPEED_OUTLIER_THRESHOLD * df[k].trip_speed_kmh[2]
          /\ df[k].trip_efficiency = <<1, 1>>

\* C10: fare per km is missing when the distance is 0 or missing or the
\* fare is missing, whatever the fare; otherwise it is the finite quotient
\* fare / distance; it is never an infinity.
C10_FarePerKm ==
    AfterFeatures =>
        \A k \in 1..Len(df) :
            LET fare == df[k].fare_amount
                dist == df[k].trip_distance_km
                q == df[k].fare_per_km
            IN  IF dist = NA \/ fare = NA
                THEN q = NA
                ELSE IF dist[1] = 0
                THEN q = NA
                ELSE /\ q # NA
                     /\ q[2] > 0
                     /\ q[1] * dist[1] * fare[2] = fare[1] * q[2] * dist[2]

\* A negative fare over a distance of 0: no fare per km.
C10_Witness ==
    /\ pc = "sort"
    /\ \E k \in 1..Len(df) :
          /\ df[k].trip_distance_km = F(0)
          /\ df[k].fare_amount # NA
          /\ df[k].fare_amount[1] < 0
          /\ df[k].fare_per_km = NA

\* The cells of the file a row of df was read from.
RawOf(row) == csv[row.idx + 1]

\* C11: once the counts are cleaned, every row has an integer passenger
\* count >= 1: 1 where the cell was empty, 1 where it was below 1, and the
\* cell's own value where that was an integer >= 1.
C11_PassengerCount ==
    pc \notin {"load", "clean"} =>
        \A k \in 1..Len(df) :
            LET raw == RawOf(df[k]).passenger_count
                n == df[k].passenger_count
            IN  /\ Len(n) = 1
                /\ n[1] >= 1
                /\ raw = NA => n = <<1>>
                /\ (raw # NA /\ (IF Len(raw) = 1 THEN raw[1] < 1 ELSE raw[1] < raw[2]))
                      => n = <<1>>
                /\ (Len(raw) = 1 /\ raw[1] >= 1) => n = raw
                /\ (Len(raw) = 2 /\ raw[2] = 1 /\ raw[1] >= 1) => n = <<raw[1]>>

\* A count of -3 was cleaned to 1.
C11_Witness ==
    /\ pc = "duration"
    /\ run = 1
    /\ \E k \in 1..Len(df) :
          RawOf(df[k]).passenger_count = <<-3>> /\ df[k].passenger_count = <<1>>

\* The vendors of the rows the idle-time pass has consumed.
SeenVendors == { df[k].vendor_id : k \in 1..pos }

\* The latest consumed row of vendor v.
LatestOf(v) == Latest({ k \in 1..pos : df[k].vendor_id = v })

\* C12: throughout the idle-time pass the tracker is empty before the
\* first row and holds, for every vendor met so far and for no other, the
\* dropoff of the latest row of that vendor, missing or not, whatever idle
\* time that row got: each step sets the entry of its row's vendor to its
\* row's dropoff and leaves the other entries as they were.
C12_TrackerHoldsLastDropoff ==
    pc = "idle_loop" =>
        /\ DOMAIN last_dropoff = SeenVendors
        /\ \A v \in SeenVendors :
              last_dropoff[v] = df[LatestOf(v)].dropoff_datetime

\* A missing dropoff has overwritten a valid one of vendor 2 (the row
\* with the valid dropoff having got no idle time), and the entry of
\* vendor 1 is still in place.
C12_Witness ==
    /\ pc = "idle_loop"
    /\ pos = 3
    /\ df[1].vendor_id = 1
    /\ df[2].vendor_id = 2
    /\ df[3].vendor_id = 2
    /\ df[1].dropoff_datetime # NA
    /\ df[2].dropoff_datetime # NA
    /\ df[3].dropoff_datetime = NA
    /\ idle_times[2] = NA
    /\ last_dropoff[1] = df[1].dropoff_datetime
    /\ last_dropoff[2] = NA

====
